---- MODULE Spec2Model ----
(***************************************************************************)
(* Model of bot.py: a Telegram bot that polls one page for a sold-out      *)
(* marker and reports to one operator by chat message and email.           *)
(*                                                                         *)
(* Strings of the program are sequences of one-character strings           *)
(* (<<"6","0">> is "60"); None and "" are both the empty sequence, which   *)
(* is how the program's truth tests (all([...])) treat them.               *)
(*                                                                         *)
(* One asyncio event loop runs everything: the code between two awaits is  *)
(* one atomic step.  Updates are dispatched one at a time (a command       *)
(* handler runs to completion before the next command is taken), job       *)
(* callbacks run as tasks of their own and interleave with a handler and   *)
(* with each other at the awaits.  A job never overlaps itself (the        *)
(* scheduler's max_instances is 1); a removed job's running callback       *)
(* continues.  An exception leaving a job callback or a handler is caught  *)
(* by the framework, which logs it and keeps running.                      *)
(*                                                                         *)
(* Environment: the fetch (line 53), the notification chat send (lines     *)
(* 110, 121, 133) and the SMTP session (lines 81-85) each succeed or       *)
(* fail, chosen nondeterministically.  Replies to the command's own        *)
(* message (reply_text) are taken to be delivered.                         *)
(***************************************************************************)
EXTENDS Integers, Sequences, FiniteSets, Bags, TLC

VARIABLES
    environ,    \* os.environ after load_dotenv(): key -> string (line 15)
    phase,      \* "boot" before main(), then "polling" or "exited"
    bot_data,   \* application.bot_data: key -> value (lines 95, 204, 244)
    jobs,       \* the scheduler's job store: the jobs not removed, oldest first
    ticks,      \* bag of the perform_check callbacks of jobs suspended in an await
    handler,    \* the command handler in progress, if any
    ev,         \* what the last step did (effects issued to the outside)
    toggles     \* history: authorized togglesilent commands processed, mod 2

vars == <<environ, phase, bot_data, jobs, ticks, handler, ev, toggles>>

-----------------------------------------------------------------------------
(* Bounds of the model *)

\* perform_check callbacks of scheduled jobs that may be suspended at once
\* (the callback of a removed job and the one of its successor make two);
\* check_now's own perform_check comes on top
MaxTicks == 1

-----------------------------------------------------------------------------
(* Strings and conversions *)

None == <<>>

Digits == <<"0", "1", "2", "3", "4", "5", "6", "7", "8", "9">>

IsDigit(c) == \E d \in 1..10 : Digits[d] = c

DigitVal(c) == (CHOOSE d \in 1..10 : Digits[d] = c) - 1

RECURSIVE DigitsVal(_)
DigitsVal(s) ==
    IF s = <<>> THEN 0
    ELSE 10 * DigitsVal(SubSeq(s, 1, Len(s) - 1)) + DigitVal(s[Len(s)])

\* int(s) of a string: an optional sign, then one or more digits; anything
\* else raises ValueError (ok = FALSE)
ParseInt(s) ==
    LET signed == s # <<>> /\ s[1] \in {"+", "-"}
        body   == IF signed THEN Tail(s) ELSE s
        ok     == body # <<>> /\ \A i \in 1..Len(body) : IsDigit(body[i])
    IN  [ok  |-> ok,
         val |-> IF ~ok THEN 0
                 ELSE IF signed /\ s[1] = "-" THEN 0 - DigitsVal(body)
                 ELSE DigitsVal(body)]

RECURSIVE NatStr(_)
NatStr(n) ==
    IF n < 10 THEN <<Digits[n + 1]>>
    ELSE NatStr(n \div 10) \o <<Digits[(n % 10) + 1]>>

\* str(n) of an integer
Str(n) == IF n < 0 THEN <<"-">> \o NatStr(0 - n) ELSE NatStr(n)

\* Python truth value of a string or None
Truthy(s) == s # <<>>

\* needle in text, for strings (a contiguous run of text equals needle)
Contains(text, needle) ==
    \E i \in 0..(Len(text) - Len(needle)) :
        SubSeq(text, i + 1, i + Len(needle)) = needle

-----------------------------------------------------------------------------
(* Configuration, lines 23-37 *)

Getenv(key) == IF key \in DOMAIN environ THEN environ[key] ELSE None

TELEGRAM_BOT_TOKEN == Getenv("TELEGRAM_BOT_TOKEN")

TELEGRAM_CHAT_ID == Getenv("TELEGRAM_CHAT_ID")

DefaultCheckInterval == 1200

CHECK_INTERVAL_SECONDS ==
    IF "CHECK_INTERVAL_SECONDS" \in DOMAIN environ
    THEN ParseInt(environ["CHECK_INTERVAL_SECONDS"]).val
    ELSE DefaultCheckInterval

TARGET_URL == Getenv("TARGET_URL")

EMAIL_HOST == Getenv("EMAIL_HOST")

DefaultEmailPort == 587

EMAIL_PORT ==
    IF "EMAIL_PORT" \in DOMAIN environ
    THEN ParseInt(environ["EMAIL_PORT"]).val
    ELSE DefaultEmailPort

EMAIL_HOST_USER == Getenv("EMAIL_HOST_USER")

EMAIL_HOST_PASSWORD == Getenv("EMAIL_HOST_PASSWORD")

EMAIL_RECIPIENT == Getenv("EMAIL_RECIPIENT")

\* the marker, as words
SOLD_OUT_TEXT == <<"tickets", "are", "sold-out!">>

-----------------------------------------------------------------------------
(* The outside world *)

\* chat identities that send commands
Chats == {7, 8}

\* bodies of a response, as the text nodes BeautifulSoup yields
Bodies ==
    { <<>>,
      << <<"buy", "now">> >>,
      << <<"menu">>, <<"all", "tickets", "are", "sold-out!", "sorry">> >>,
      << <<"tickets", "are">>, <<"sold-out!">> >> }

Statuses == {200, 404}

\* what client.get (line 53) can come back with: a RequestError or a response
FetchResults ==
    {[err |-> TRUE, status |-> 0, body |-> <<>>]}
    \cup {[err |-> FALSE, status |-> s, body |-> b] : s \in Statuses, b \in Bodies}

\* context.args of a start command
StartArgs ==
    { <<>>,
      << <<"a", "b">> >>,
      << <<"0">> >>,
      << <<"-", "5">> >>,
      << <<"6", "0">> >> }

-----------------------------------------------------------------------------
(* check_tickets, lines 40-66 *)

\* soup.find(string=lambda text: SOLD_OUT_TEXT in text): the text nodes found
SoupFind(body) == {i \in 1..Len(body) : Contains(body[i], SOLD_OUT_TEXT)}

\* mutant: "is None" written as "is not None" at line 58
check_ticketsInverted(r) ==
    IF r.err
    THEN [status_code |-> None, tickets_available |-> FALSE, content |-> <<>>]
    ELSE [status_code |-> <<r.status>>,
          tickets_available |-> IF r.status = 200 THEN SoupFind(r.body) # {}
                                ELSE FALSE,
          content |-> r.body]

\* the returned (status_code, tickets_available, content); a status code is
\* <<n>> and None is <<>>
check_tickets(r) ==
    IF r.err
    THEN [status_code |-> None, tickets_available |-> FALSE, content |-> <<>>]
    ELSE [status_code |-> <<r.status>>,
          tickets_available |-> IF r.status = 200 THEN SoupFind(r.body) = {}
                                ELSE FALSE,
          content |-> r.body]

-----------------------------------------------------------------------------
(* send_email_notification, lines 69-89 *)

\* mutant: the recipient left out of the list of line 71
EmailConfigCompleteButRecipient ==
    /\ Truthy(EMAIL_HOST)
    /\ EMAIL_PORT # 0
    /\ Truthy(EMAIL_HOST_USER)
    /\ Truthy(EMAIL_HOST_PASSWORD)

\* the test of line 71
EmailConfigComplete ==
    /\ Truthy(EMAIL_HOST)
    /\ EMAIL_PORT # 0
    /\ Truthy(EMAIL_HOST_USER)
    /\ Truthy(EMAIL_HOST_PASSWORD)
    /\ Truthy(EMAIL_RECIPIENT)

\* mutant: the exception logged at line 88 and not re-raised
send_email_notificationSwallowing(smtp_ok) ==
    IF ~EmailConfigComplete
    THEN [transport |-> 0, delivered |-> 0, raised |-> FALSE]
    ELSE [transport |-> 1, delivered |-> IF smtp_ok THEN 1 ELSE 0,
          raised |-> FALSE]

\* smtp_ok: whether the SMTP session of lines 81-85 goes through.
\* transport: sessions opened; raised: the exception re-raised at line 89
send_email_notification(smtp_ok) ==
    IF ~EmailConfigComplete
    THEN [transport |-> 0, delivered |-> 0, raised |-> FALSE]
    ELSE IF smtp_ok
    THEN [transport |-> 1, delivered |-> 1, raised |-> FALSE]
    ELSE [transport |-> 1, delivered |-> 0, raised |-> TRUE]

-----------------------------------------------------------------------------
(* perform_check, lines 92-135 *)

BotDataGet(key, default) ==
    IF key \in DOMAIN bot_data THEN bot_data[key] ELSE default

\* The locals of one perform_check call, with what it has sent so far.
\*   kind     "tick" (a job's callback) or "manual" (called by check_now)
\*   job      context.job: the job's position in the job store, 0 once the
\*            job is removed (job.removed) and for check_now's DummyJob
\*   pc       "fetch": awaiting line 98; "chat": awaiting send_message;
\*            "returned" / "raised": over
\*   branch   which send_message: "failed" (110), "available" (121),
\*            "report" (133), "none"
\*   chats, emails, smtp, delivered: chat sends issued, calls of
\*            send_email_notification, SMTP sessions opened, mails accepted
NoCheck ==
    [kind |-> "none", job |-> 0, chat_id |-> 0, is_silent |-> FALSE,
     pc |-> "none", status_code |-> None, tickets_available |-> FALSE,
     branch |-> "none", chats |-> 0, emails |-> 0, smtp |-> 0,
     delivered |-> 0]

\* lines 94-98, up to the await of check_tickets
PerformCheckBegin(kind, job, chat_id) ==
    [NoCheck EXCEPT !.kind = kind, !.job = job, !.chat_id = chat_id,
                    !.is_silent = BotDataGet("is_silent", FALSE),
                    !.pc = "fetch"]

\* mutant: the silent test left out
SuppressedNever(c) == FALSE

\* the silent test of line 128
Suppressed(c) == c.is_silent

\* lines 98-135 from the return of check_tickets to the next await (or the end)
PerformCheckFetched(c, r) ==
    LET res == check_tickets(r)
        got == [c EXCEPT !.status_code = res.status_code,
                !.tickets_available = res.tickets_available]
    IN  IF got.status_code = None \/ got.status_code # <<200>>
        THEN [got EXCEPT !.branch = "failed", !.pc = "chat", !.chats = @ + 1]
        ELSE IF got.tickets_available
        THEN [got EXCEPT !.branch = "available", !.pc = "chat", !.chats = @ + 1]
        ELSE IF ~Suppressed(got)
        THEN [got EXCEPT !.branch = "report", !.pc = "chat", !.chats = @ + 1]
        ELSE [got EXCEPT !.pc = "returned"]

\* whether the branch goes on to send_email_notification (lines 112, 122)
EmailsAfterChat(c) == c.branch \in {"failed", "available"}

\* mutant: a chat send that raised is passed over and the mail sent anyway
PerformCheckChattedRegardless(c, sent, smtp_ok) ==
    IF EmailsAfterChat(c)
    THEN LET m == send_email_notification(smtp_ok)
         IN  [c EXCEPT !.emails = @ + 1,
                       !.smtp = @ + m.transport,
                       !.delivered = @ + m.delivered,
                       !.pc = IF m.raised \/ ~sent THEN "raised" ELSE "returned"]
    ELSE [c EXCEPT !.pc = IF sent THEN "returned" ELSE "raised"]

\* from the return of send_message to the end.  sent: the send went through
\* (otherwise it raised); smtp_ok as in send_email_notification
PerformCheckChatted(c, sent, smtp_ok) ==
    IF ~sent THEN [c EXCEPT !.pc = "raised"]
    ELSE IF EmailsAfterChat(c)
    THEN LET m == send_email_notification(smtp_ok)
         IN  [c EXCEPT !.emails = @ + 1,
                       !.smtp = @ + m.transport,
                       !.delivered = @ + m.delivered,
                       !.pc = IF m.raised THEN "raised" ELSE "returned"]
    ELSE [c EXCEPT !.pc = "returned"]

Over(c) == c.pc \in {"returned", "raised"}

-----------------------------------------------------------------------------
(* Observation of a step: what it issued to the outside *)

Reply(text, n) == [text |-> text, n |-> n]

\* no response at all: no response has status 0
NoFetch == [err |-> FALSE, status |-> 0, body |-> <<>>]

\*   replies    update.message.reply_text calls, in order
\*   startup    the startup message of post_init (line 254)
\*   fetches, chats, emails, smtp   fetches begun, notification chat sends
\*              issued, send_email_notification calls, SMTP sessions opened
\*   removals   job.schedule_removal() calls
\*   fetched    what client.get came back with, when check_tickets returned
\*   after      the perform_check call that took this step, if one did, as
\*              the step left it
Quiet ==
    [replies |-> <<>>, startup |-> 0, fetches |-> 0, chats |-> 0,
     emails |-> 0, smtp |-> 0, removals |-> 0, fetched |-> NoFetch,
     after |-> NoCheck]

Replied(text, n) == [Quiet EXCEPT !.replies = <<Reply(text, n)>>]

-----------------------------------------------------------------------------
(* Process start *)

KeysOfEnv ==
    {"TELEGRAM_BOT_TOKEN", "TELEGRAM_CHAT_ID", "TARGET_URL", "EMAIL_HOST",
     "EMAIL_HOST_USER", "EMAIL_HOST_PASSWORD", "EMAIL_RECIPIENT"}

CriticalKeys == {"TELEGRAM_BOT_TOKEN", "TELEGRAM_CHAT_ID", "TARGET_URL"}

\* a .env file that sets everything but the values with defaults
BaseEnv == [k \in KeysOfEnv |-> IF k = "TELEGRAM_CHAT_ID" THEN <<"7">> ELSE <<"x">>]

Without(env, key) == [k \in (DOMAIN env) \ {key} |-> env[k]]

With(env, key, value) ==
    [k \in (DOMAIN env) \cup {key} |-> IF k = key THEN value ELSE env[k]]

Environments ==
    {BaseEnv}
    \cup {Without(BaseEnv, k) : k \in CriticalKeys \cup {"EMAIL_HOST"}}

Idle == [cmd |-> "none", pc |-> "idle", chat_id |-> 0, chk |-> NoCheck]

Init ==
    /\ environ \in Environments
    /\ phase = "boot"
    /\ bot_data = [k \in {} |-> FALSE]
    /\ jobs = <<>>
    /\ ticks = EmptyBag
    /\ handler = Idle
    /\ ev = Quiet
    /\ toggles = 0

\* mutant: the target URL left out of the list of line 237
CriticalConfigPresentButUrl ==
    Truthy(TELEGRAM_BOT_TOKEN) /\ Truthy(TELEGRAM_CHAT_ID)

\* line 237
CriticalConfigPresent ==
    Truthy(TELEGRAM_BOT_TOKEN) /\ Truthy(TELEGRAM_CHAT_ID) /\ Truthy(TARGET_URL)

\* main, lines 235-261
main ==
    /\ phase = "boot"
    /\ IF ~CriticalConfigPresent
       THEN /\ phase' = "exited"
            /\ bot_data' = bot_data
            /\ ev' = Quiet
       ELSE /\ phase' = "polling"
            /\ bot_data' = [k \in {"is_silent"} |-> FALSE]
            /\ ev' = [Quiet EXCEPT !.startup = 1]
    /\ UNCHANGED <<environ, toggles, jobs, ticks, handler>>

-----------------------------------------------------------------------------
(* Command handlers *)

\* a command is taken when the dispatcher is free
Dispatch == phase = "polling" /\ handler = Idle

\* mutant: the identity test dropped
AuthorizedAnyone(chat_id) == TRUE

\* the test of lines 141, 163, 181, 200, 219, negated
Authorized(chat_id) == Str(chat_id) = TELEGRAM_CHAT_ID

\* lines 142-143 and their copies
Reject ==
    /\ ev' = Replied("not authorized", 0)
    /\ UNCHANGED <<environ, toggles, phase, bot_data, jobs, ticks, handler>>

\* mutant: the lookup under another name finds nothing
GetJobsByNameNone(name) == {}

\* job_queue.get_jobs_by_name: positions in the job store
GetJobsByName(name) == {i \in 1..Len(jobs) : jobs[i].name = name}

RECURSIVE Keep(_, _, _)
Keep(store, gone, i) ==
    IF i > Len(store) THEN <<>>
    ELSE (IF i \in gone THEN <<>> ELSE <<store[i]>>) \o Keep(store, gone, i + 1)

\* mutant: the removal loop left out
RemoveJobsForgotten(current_jobs) == jobs

\* the loops of lines 148-149 and 172-173, job.schedule_removal() on each:
\* the job store afterwards
RemoveJobs(current_jobs) == Keep(jobs, current_jobs, 1)

\* a running callback's context.job after those removals
JobAfterRemoval(t, current_jobs) ==
    [t EXCEPT !.job = IF @ \in current_jobs THEN 0
                      ELSE @ - Cardinality({i \in current_jobs : i < @})]

TicksAfterRemoval(current_jobs) ==
    LET Moved(t) == JobAfterRemoval(t, current_jobs)
    IN  BagOfAll(Moved, ticks)

\* lines 151-154
StartInterval(args) ==
    IF args = <<>> THEN CHECK_INTERVAL_SECONDS
    ELSE IF ParseInt(args[1]).ok THEN ParseInt(args[1]).val
    ELSE CHECK_INTERVAL_SECONDS

\* job_queue.run_repeating, line 156: the job store afterwards
RunRepeating(store, interval, chat_id) ==
    Append(store, [name |-> Str(chat_id), chat_id |-> chat_id,
                   interval |-> interval])

\* start, lines 138-157
start(chat_id, args) ==
    /\ Dispatch
    /\ IF ~Authorized(chat_id) THEN Reject
       ELSE LET current_jobs == GetJobsByName(Str(chat_id))
                interval == StartInterval(args)
            IN  /\ jobs' = RunRepeating(RemoveJobs(current_jobs), interval, chat_id)
                /\ ticks' = TicksAfterRemoval(current_jobs)
                /\ ev' = [Replied("started", interval) EXCEPT
                            !.removals = Cardinality(current_jobs)]
                /\ UNCHANGED <<environ, toggles, phase, bot_data, handler>>

\* mutant: the stop reply without the removals of lines 171-172
stopWithoutRemoval(chat_id) ==
    /\ Dispatch
    /\ IF ~Authorized(chat_id) THEN Reject
       ELSE /\ ev' = Replied(IF GetJobsByName(Str(chat_id)) = {}
                             THEN "not running" ELSE "stopped", 0)
            /\ UNCHANGED <<environ, toggles, phase, bot_data, jobs, ticks, handler>>

\* stop, lines 160-175
stop(chat_id) ==
    /\ Dispatch
    /\ IF ~Authorized(chat_id) THEN Reject
       ELSE LET current_jobs == GetJobsByName(Str(chat_id))
            IN  IF current_jobs = {}
                THEN /\ ev' = Replied("not running", 0)
                     /\ UNCHANGED <<environ, toggles, phase, bot_data, jobs, ticks, handler>>
                ELSE /\ jobs' = RemoveJobs(current_jobs)
                     /\ ticks' = TicksAfterRemoval(current_jobs)
                     /\ ev' = [Replied("stopped", 0) EXCEPT
                                 !.removals = Cardinality(current_jobs)]
                     /\ UNCHANGED <<environ, toggles, phase, bot_data, handler>>

\* check_now, lines 178-185, up to the await of the reply
check_now(chat_id) ==
    /\ Dispatch
    /\ IF ~Authorized(chat_id) THEN Reject
       ELSE /\ handler' = [cmd |-> "check", pc |-> "reply",
                           chat_id |-> chat_id, chk |-> NoCheck]
            /\ ev' = Replied("performing", 0)
            /\ UNCHANGED <<environ, toggles, phase, bot_data, jobs, ticks>>

\* mutant: the command switches silent mode on instead of toggling it
ToggledStateOn == TRUE

\* lines 204-205
ToggledState == ~BotDataGet("is_silent", FALSE)

\* toggle_silent_mode, lines 197-213
toggle_silent_mode(chat_id) ==
    /\ Dispatch
    /\ IF ~Authorized(chat_id) THEN Reject
       ELSE LET new_state == ToggledState
            IN  /\ bot_data' = [k \in (DOMAIN bot_data) \cup {"is_silent"} |->
                                  IF k = "is_silent" THEN new_state ELSE bot_data[k]]
                /\ ev' = Replied(IF new_state THEN "silent ON" ELSE "silent OFF", 0)
                /\ toggles' = (toggles + 1) % 2
                /\ UNCHANGED <<environ, phase, jobs, ticks, handler>>

\* test_email, lines 216-223, up to the await of the reply
test_email(chat_id) ==
    /\ Dispatch
    /\ IF ~Authorized(chat_id) THEN Reject
       ELSE /\ handler' = [cmd |-> "testemail", pc |-> "reply",
                           chat_id |-> chat_id, chk |-> NoCheck]
            /\ ev' = Replied("sending test", 0)
            /\ UNCHANGED <<environ, toggles, phase, bot_data, jobs, ticks>>

\* what a step of a perform_check call issued: c before, d after
Issued(c, d) ==
    [Quiet EXCEPT
        !.fetches = IF c.pc = "none" THEN 1 ELSE 0,
        !.chats = d.chats - c.chats,
        !.emails = d.emails - c.emails,
        !.smtp = d.smtp - c.smtp,
        !.after = d]

\* mutant: the immediate check run as a job of the queue
check_now_callAsJob ==
    /\ phase = "polling"
    /\ handler.cmd = "check" /\ handler.pc = "reply"
    /\ jobs' = RunRepeating(jobs, 0, handler.chat_id)
    /\ handler' = Idle
    /\ ev' = Quiet
    /\ UNCHANGED <<environ, toggles, phase, bot_data, ticks>>

\* check_now, lines 187-194: the reply is out, perform_check starts
check_now_call ==
    /\ phase = "polling"
    /\ handler.cmd = "check" /\ handler.pc = "reply"
    /\ LET c == PerformCheckBegin("manual", 0, handler.chat_id)
       IN  /\ handler' = [handler EXCEPT !.pc = "check", !.chk = c]
           /\ ev' = Issued(NoCheck, c)
    /\ UNCHANGED <<environ, toggles, phase, bot_data, jobs, ticks>>

\* check_now's perform_check: check_tickets returns
check_now_fetched(r) ==
    /\ phase = "polling"
    /\ handler.pc = "check" /\ handler.chk.pc = "fetch"
    /\ LET c == PerformCheckFetched(handler.chk, r)
       IN  /\ handler' = IF Over(c) THEN Idle ELSE [handler EXCEPT !.chk = c]
           /\ ev' = [Issued(handler.chk, c) EXCEPT !.fetched = r]
    /\ UNCHANGED <<environ, toggles, phase, bot_data, jobs, ticks>>

\* check_now's perform_check: send_message returns or raises, and the rest;
\* an exception leaves check_now too (it has no try)
check_now_chatted(sent, smtp_ok) ==
    /\ phase = "polling"
    /\ handler.pc = "check" /\ handler.chk.pc = "chat"
    /\ LET c == PerformCheckChatted(handler.chk, sent, smtp_ok)
       IN  /\ handler' = Idle
           /\ ev' = Issued(handler.chk, c)
    /\ UNCHANGED <<environ, toggles, phase, bot_data, jobs, ticks>>

\* test_email, lines 224-232: the reply is out, the mail is sent
test_email_send(smtp_ok) ==
    /\ phase = "polling"
    /\ handler.cmd = "testemail" /\ handler.pc = "reply"
    /\ LET m == send_email_notification(smtp_ok)
       IN  ev' = [Replied(IF m.raised THEN "test failed" ELSE "test sent", 0)
                    EXCEPT !.emails = 1, !.smtp = m.transport]
    /\ handler' = Idle
    /\ UNCHANGED <<environ, toggles, phase, bot_data, jobs, ticks>>

-----------------------------------------------------------------------------
(* Scheduled jobs *)

Running == BagToSet(ticks)

One(c) == SetToBag({c})

\* the scheduler fires the job at position i: perform_check(context) starts
\* (lines 92-98)
tick(i) ==
    /\ phase = "polling"
    /\ i \in 1..Len(jobs)
    /\ \A t \in Running : t.job # i
    /\ BagCardinality(ticks) < MaxTicks
    /\ LET c == PerformCheckBegin("tick", i, jobs[i].chat_id)
       IN  /\ ticks' = ticks (+) One(c)
           /\ ev' = Issued(NoCheck, c)
    /\ UNCHANGED <<environ, toggles, phase, bot_data, jobs, handler>>

\* a job's perform_check: check_tickets returns
tick_fetched(t, r) ==
    /\ t \in Running /\ t.pc = "fetch"
    /\ LET c == PerformCheckFetched(t, r)
       IN  /\ ticks' = IF Over(c) THEN ticks (-) One(t)
                       ELSE (ticks (-) One(t)) (+) One(c)
           /\ ev' = [Issued(t, c) EXCEPT !.fetched = r]
    /\ UNCHANGED <<environ, toggles, phase, bot_data, jobs, handler>>

\* mutant: a callback that ends with an exception takes its job off the queue
tick_chattedUnscheduling(t, sent, smtp_ok) ==
    /\ t \in Running /\ t.pc = "chat"
    /\ LET c == PerformCheckChatted(t, sent, smtp_ok)
       IN  /\ ticks' = ticks (-) One(t)
           /\ ev' = Issued(t, c)
           /\ jobs' = IF c.pc = "raised" THEN <<>> ELSE jobs
    /\ UNCHANGED <<environ, toggles, phase, bot_data, handler>>

\* a job's perform_check: send_message returns or raises, and the rest.
\* An exception that leaves the callback goes to the framework's error
\* handling; the job stays scheduled.
tick_chatted(t, sent, smtp_ok) ==
    /\ t \in Running /\ t.pc = "chat"
    /\ LET c == PerformCheckChatted(t, sent, smtp_ok)
       IN  /\ ticks' = ticks (-) One(t)
           /\ ev' = Issued(t, c)
    /\ UNCHANGED <<environ, toggles, phase, bot_data, jobs, handler>>

-----------------------------------------------------------------------------

Next ==
    \/ main
    \/ \E chat_id \in Chats, args \in StartArgs : start(chat_id, args)
    \/ \E chat_id \in Chats : stop(chat_id)
    \/ \E chat_id \in Chats : check_now(chat_id)
    \/ \E chat_id \in Chats : toggle_silent_mode(chat_id)
    \/ \E chat_id \in Chats : test_email(chat_id)
    \/ check_now_call
    \/ \E r \in FetchResults : check_now_fetched(r)
    \/ \E sent \in BOOLEAN, smtp_ok \in BOOLEAN : check_now_chatted(sent, smtp_ok)
    \/ \E smtp_ok \in BOOLEAN : test_email_send(smtp_ok)
    \/ \E i \in 1..Len(jobs) : tick(i)
    \/ \E t \in Running, r \in FetchResults : tick_fetched(t, r)
    \/ \E t \in Running, sent \in BOOLEAN, smtp_ok \in BOOLEAN :
           tick_chatted(t, sent, smtp_ok)

Spec == Init /\ [][Next]_vars

\* The scheduler and the event loop at work: a job that is due is fired (the
\* interval elapses), a fetch comes back (check_tickets has a 30 s timeout,
\* line 46), a send returns or raises.
Fairness ==
    /\ WF_vars(\E i \in 1..Len(jobs) : tick(i))
    /\ WF_vars(\E t \in Running, r \in FetchResults : tick_fetched(t, r))
    /\ WF_vars(\E t \in Running, sent \in BOOLEAN, smtp_ok \in BOOLEAN :
                  tick_chatted(t, sent, smtp_ok))

SpecFair == Spec /\ Fairness

\* The same program under each way the mail settings can be given: all but
\* the port (which then is 587), one of the others missing, the port 0
MailKeys ==
    {"EMAIL_HOST", "EMAIL_HOST_USER", "EMAIL_HOST_PASSWORD", "EMAIL_RECIPIENT"}

MailEnvironments ==
    {BaseEnv}
    \cup {Without(BaseEnv, k) : k \in MailKeys}
    \cup {With(BaseEnv, "EMAIL_PORT", <<"0">>)}

InitMail ==
    /\ environ \in MailEnvironments
    /\ phase = "boot"
    /\ bot_data = [k \in {} |-> FALSE]
    /\ jobs = <<>>
    /\ ticks = EmptyBag
    /\ handler = Idle
    /\ ev = Quiet
    /\ toggles = 0

SpecMail == InitMail /\ [][Next]_vars

-----------------------------------------------------------------------------
(* Properties *)

IsSilent == BotDataGet("is_silent", FALSE)

Operator(chat_id) == Str(chat_id) = TELEGRAM_CHAT_ID

\* the outcome of a poll, from what check_tickets returned to perform_check
Outcome(c) ==
    IF c.status_code # <<200>> THEN "Failure"
    ELSE IF c.tickets_available THEN "TicketsAvailable"
    ELSE "SoldOut"

\* a perform_check call ended in the last step
Ended == ev.after.kind # "none" /\ Over(ev.after)

\* a command of chat_id is processed, up to its first await
CommandBy(chat_id) ==
    \/ \E args \in StartArgs : start(chat_id, args)
    \/ stop(chat_id)
    \/ check_now(chat_id)
    \/ toggle_silent_mode(chat_id)
    \/ test_email(chat_id)

\* C1: a command (start, stop, check, togglesilent, testemail) of a chat
\* that is not the configured operator issues the one reply "not
\* authorized" and nothing else: no fetch, no notification chat message, no
\* email, no removal; timers, running checks and the silent flag stay.
C1_UnauthorizedNoEffect ==
    [][\A chat_id \in Chats :
         (~Operator(chat_id) /\ CommandBy(chat_id))
             => /\ ev' = Replied("not authorized", 0)
                /\ UNCHANGED <<jobs, ticks, bot_data, handler, phase>>]_vars

\* an unauthorized command was rejected while a timer was active, a check
\* was in flight and silent mode was on
C1_Witness ==
    /\ ev = Replied("not authorized", 0)
    /\ Len(jobs) = 1
    /\ BagCardinality(ticks) = 1
    /\ IsSilent

\* the interval each start argument of StartArgs asks for
IntervalAskedFor(args) ==
    IF args = << <<"6", "0">> >> THEN 60
    ELSE IF args = << <<"0">> >> THEN 0
    ELSE IF args = << <<"-", "5">> >> THEN 0 - 5
    ELSE CHECK_INTERVAL_SECONDS

\* C2: the operator never has more than one timer; an authorized start
\* leaves exactly one, with the interval of that start, and it is a new
\* one: every timer there was is removed (one removal each) and no running
\* callback belongs to the timer now scheduled.
C2_OneTimer ==
    /\ [](Len(jobs) <= 1)
    /\ [][\A chat_id \in Chats, args \in StartArgs :
            (Operator(chat_id) /\ start(chat_id, args))
                => /\ Len(jobs') = 1
                   /\ jobs'[1].interval = IntervalAskedFor(args)
                   /\ ev'.removals = Len(jobs)
                   /\ \A t \in BagToSet(ticks') : t.job = 0]_vars

\* a start replaced a timer whose callback was suspended in its fetch
C2_Witness ==
    /\ ev.replies = <<Reply("started", 60)>>
    /\ ev.removals = 1
    /\ Len(jobs) = 1
    /\ \E t \in Running : t.job = 0 /\ t.pc = "fetch"

\* C3: a check that polled SoldOut and read the silent flag as true sends no
\* chat message and no email; one that read it as false sends exactly one
\* chat message, the status report, and no email.
C3_SoldOutPolicy ==
    (Ended /\ Outcome(ev.after) = "SoldOut")
        => IF ev.after.is_silent
           THEN ev.after.chats = 0 /\ ev.after.emails = 0
           ELSE /\ ev.after.chats = 1
                /\ ev.after.branch = "report"
                /\ ev.after.emails = 0

\* a scheduled check found the page sold out in silent mode
C3_Witness ==
    /\ Ended
    /\ ev.after.kind = "tick"
    /\ Outcome(ev.after) = "SoldOut"
    /\ ev.after.is_silent
    /\ ev.after.chats = 0

\* C4, as claimed: a check that polled TicketsAvailable sends exactly one
\* chat message and exactly one email (counted as calls of
\* send_email_notification), whatever the silent flag.
C4_AvailablePolicy ==
    (Ended /\ Outcome(ev.after) = "TicketsAvailable")
        => ev.after.chats = 1 /\ ev.after.emails = 1

\* C5, as claimed: a check that polled Failure sends exactly one chat
\* message and attempts exactly one email, whatever the silent flag.
C5_FailurePolicy ==
    (Ended /\ Outcome(ev.after) = "Failure")
        => ev.after.chats = 1 /\ ev.after.emails = 1

\* some text of the body contains the marker
HasMarker(body) == \E i \in 1..Len(body) : Contains(body[i], SOLD_OUT_TEXT)

C7_TickSwallowsMailFailure ==
    (Ended /\ ev.after.kind = "tick" /\ ev.after.smtp = 1
           /\ ev.after.delivered = 0)
        => ev.after.pc = "returned"

\* C8: an authorized stop without a timer replies "not running" and changes
\* nothing; with a timer it removes every timer of the operator, replies
\* "stopped" and leaves none; the silent flag stays in both cases.
C8_Stop ==
    [][\A chat_id \in Chats :
         (Operator(chat_id) /\ stop(chat_id))
             => IF Len(jobs) = 0
                THEN /\ ev' = Replied("not running", 0)
                     /\ UNCHANGED <<jobs, ticks, bot_data, handler>>
                ELSE /\ ev'.replies = <<Reply("stopped", 0)>>
                     /\ ev'.removals = Len(jobs)
                     /\ Len(jobs') = 0
                     /\ \A t \in BagToSet(ticks') : t.job = 0
                     /\ bot_data' = bot_data]_vars

\* a stop removed the timer while its callback was suspended
C8_Witness ==
    /\ ev.replies = <<Reply("stopped", 0)>>
    /\ ev.removals = 1
    /\ Len(jobs) = 0
    /\ BagCardinality(ticks) = 1

\* a step of an authorized check command, from the command to the end of
\* its perform_check
ManualCheckStep ==
    \/ \E chat_id \in Chats : Operator(chat_id) /\ check_now(chat_id)
    \/ check_now_call
    \/ \E r \in FetchResults : check_now_fetched(r)
    \/ \E sent \in BOOLEAN, smtp_ok \in BOOLEAN : check_now_chatted(sent, smtp_ok)

\* C9: an authorized check command goes on to fetch whether or not a timer
\* is active (after its reply the next step of the handler begins the
\* fetch), and no step of it changes the timers, the running callbacks of
\* the timers or the silent flag.
C9_ManualCheckFrame ==
    /\ []((handler.cmd = "check" /\ handler.pc = "reply") => ENABLED check_now_call)
    /\ [][(\A chat_id \in Chats :
             (Operator(chat_id) /\ check_now(chat_id))
                 => handler'.cmd = "check" /\ handler'.pc = "reply")
          /\ (check_now_call => ev'.fetches = 1 /\ handler'.chk.pc = "fetch")
          /\ (ManualCheckStep => UNCHANGED <<jobs, ticks, bot_data>>)]_vars

\* a manual check ran to its end without a timer, and notified
C9_Witness ==
    /\ Ended
    /\ ev.after.kind = "manual"
    /\ ev.after.chats = 1
    /\ Len(jobs) = 0

\* C10: the silent flag is false at start and is true exactly when an odd
\* number of authorized togglesilent commands have been processed; it
\* changes only in an authorized togglesilent, which negates it and replies
\* with the new value.
C10_SilentFlag ==
    /\ [](phase = "polling" => (IsSilent <=> toggles = 1))
    /\ [][/\ (IsSilent' # IsSilent) =>
                \E chat_id \in Chats :
                    Operator(chat_id) /\ toggle_silent_mode(chat_id)
          /\ \A chat_id \in Chats :
                (Operator(chat_id) /\ toggle_silent_mode(chat_id))
                    => /\ IsSilent' = ~IsSilent
                       /\ ev' = Replied(IF IsSilent' THEN "silent ON"
                                        ELSE "silent OFF", 0)]_vars

\* silent mode was switched off again
C10_Witness ==
    /\ ev = Replied("silent OFF", 0)
    /\ toggles = 0
    /\ ~IsSilent

\* a mail setting is missing from the environment, the port included
MailSettingMissing ==
    \E k \in MailKeys \cup {"EMAIL_PORT"} : k \notin DOMAIN environ

\* a mail setting without a default is missing, or the port is given as 0
MailConfigIncomplete ==
    \/ \E k \in MailKeys : k \notin DOMAIN environ
    \/ ("EMAIL_PORT" \in DOMAIN environ /\ environ["EMAIL_PORT"] = <<"0">>)

\* what C11 says of a step: no SMTP session, a check that asked for its
\* email has sent its chat message and returns, no "test failed" reply
NoMailNoError ==
    /\ ev.smtp = 0
    /\ (Ended /\ ev.after.emails = 1)
           => ev.after.chats = 1 /\ ev.after.pc = "returned"
    /\ ev.replies # <<Reply("test failed", 0)>>

\* C11, as claimed: when any of host, port, user, password, recipient is
\* missing, an email request opens no SMTP session and is no error for the
\* check or the testemail command that made it.
C11_MissingSettingSkips == MailSettingMissing => NoMailNoError

\* C11, amended: the same when host, user, password or recipient is missing
\* or the port is 0; a missing port is 587 and not a missing setting.
C11_IncompleteConfigSkips == MailConfigIncomplete => NoMailNoError

\* without a recipient a scheduled check of a failed fetch sent its chat
\* message, asked for its email and returned
C11_Witness ==
    /\ "EMAIL_RECIPIENT" \notin DOMAIN environ
    /\ Ended
    /\ ev.after.kind = "tick"
    /\ Outcome(ev.after) = "Failure"
    /\ ev.after.chats = 1
    /\ ev.emails = 1
    /\ ev.smtp = 0
    /\ ev.after.pc = "returned"

\* C12: an authorized testemail with complete mail configuration opens one
\* SMTP session; if it fails the only reply after "sending" is the error
\* reply, if it goes through the only one is the success reply; the
\* handler returns either way, and no step of the command changes the
\* timers, their callbacks or the silent flag.
C12_TestEmailReports ==
    [][/\ \A chat_id \in Chats :
             (Operator(chat_id) /\ test_email(chat_id))
                 => /\ ev' = Replied("sending test", 0)
                    /\ UNCHANGED <<jobs, ticks, bot_data>>
       /\ \A smtp_ok \in BOOLEAN :
             (~MailConfigIncomplete /\ test_email_send(smtp_ok))
                 => /\ ev'.smtp = 1
                    /\ ev'.replies = <<Reply(IF smtp_ok THEN "test sent"
                                             ELSE "test failed", 0)>>
                    /\ handler' = Idle
                    /\ UNCHANGED <<jobs, ticks, bot_data>>]_vars

\* a test mail failed and was reported, with a timer active and silent on
C12_Witness ==
    /\ ev.replies = <<Reply("test failed", 0)>>
    /\ ev.smtp = 1
    /\ handler = Idle
    /\ Len(jobs) = 1
    /\ IsSilent

CriticalSettingMissing == \E k \in CriticalKeys : k \notin DOMAIN environ

\* C13: with the token, the operator id or the target URL missing the
\* process ends in main: it never polls, sends no startup message, takes no
\* command and runs no tick; with all three, main sends the startup message,
\* and no other step ever sends one.
C13_Startup ==
    /\ [](CriticalSettingMissing =>
            /\ phase \in {"boot", "exited"}
            /\ ev = Quiet
            /\ jobs = <<>> /\ ticks = EmptyBag /\ handler = Idle
            /\ DOMAIN bot_data = {})
    /\ [][/\ (main /\ ~CriticalSettingMissing)
               => phase' = "polling" /\ ev'.startup = 1
          /\ (ev'.startup # 0) => (phase = "boot" /\ ev'.startup = 1)]_vars

\* the process ended in main for want of the target URL
C13_Witness ==
    /\ "TARGET_URL" \notin DOMAIN environ
    /\ phase = "exited"
    /\ ev.startup = 0

\* a step in which a sold-out status report (line 133) was issued
ReportIssued == ev.after.branch = "report" /\ ev.chats = 1

\* C14: a sold-out status report is issued only at a moment when the silent
\* flag is false, whatever was in progress when the flag was toggled.
C14_NoReportWhileSilent == ReportIssued => ~IsSilent

\* the perform_check calls in progress: begun and not yet over
ChecksInProgress ==
    BagCardinality(ticks)
    + (IF handler.chk.pc \in {"fetch", "chat"} THEN 1 ELSE 0)

\* C15: at most one check (a fetch followed by its notifications) is in
\* progress in any reachable state.
C15_NoOverlap == ChecksInProgress <= 1

\* a step in which the callback of a job began (its fetch issued)
ScheduledCheckBegan ==
    ev.after.kind = "tick" /\ ev.after.pc = "fetch" /\ ev.fetches = 1

\* C16: an authorized stop leaves no timer; while there is none, no step
\* begins a scheduled check, and none appears but by an authorized start.
\* A callback that had begun is not taken back: it loses its job and goes on.
C16_StopEffective ==
    /\ [](ScheduledCheckBegan => ev.after.job \in 1..Len(jobs))
    /\ [][/\ \A chat_id \in Chats :
               (Operator(chat_id) /\ stop(chat_id))
                   => /\ jobs' = <<>>
                      /\ \A t \in BagToSet(ticks') : t.job = 0
                      /\ BagCardinality(ticks') = BagCardinality(ticks)
          /\ (jobs = <<>> /\ ~\E chat_id \in Chats, args \in StartArgs :
                                 Operator(chat_id) /\ start(chat_id, args))
               => /\ jobs' = <<>>
                  /\ ~ScheduledCheckBegan']_vars

\* a callback that had begun before the stop sent its chat message after it
C16_Witness ==
    /\ jobs = <<>>
    /\ ev.after.kind = "tick" /\ ev.after.job = 0
    /\ ev.after.branch = "available"
    /\ ev.chats = 1

\* C17: every timer in the job queue has a positive interval.
C17_PositiveInterval == \A i \in 1..Len(jobs) : jobs[i].interval > 0

\* a step of a job's callback
TickStep ==
    \/ \E i \in 1..Len(jobs) : tick(i)
    \/ \E t \in Running, r \in FetchResults : tick_fetched(t, r)
    \/ \E t \in Running, sent \in BOOLEAN, smtp_ok \in BOOLEAN :
           tick_chatted(t, sent, smtp_ok)

\* C18: no step of a scheduled check changes the job queue (the timers and
\* their intervals), whatever the outcome and the flag; every scheduled
\* check begins with a fetch, and what it sends after the fetch depends on
\* that fetch and the flag it read alone; and, with the scheduler firing due
\* jobs, either the queue is empty again and again or scheduled checks begin
\* again and again.
C18_TicksRecur ==
    /\ [][/\ TickStep => UNCHANGED <<jobs, bot_data>>
          /\ \A i \in 1..Len(jobs) :
                tick(i) => ev'.fetches = 1 /\ ev'.after.branch = "none"
          /\ \A t \in Running, r \in FetchResults :
                tick_fetched(t, r)
                    => ev'.chats =
                         (IF Outcome(ev'.after) = "SoldOut" /\ t.is_silent
                          THEN 0 ELSE 1)]_vars
    /\ ([]<>(jobs = <<>>)) \/ ([]<>ScheduledCheckBegan)

\* a scheduled check ended as a failure, with an exception, and its timer
\* is still in the queue with the interval of its start
C18_Witness ==
    /\ Ended /\ ev.after.kind = "tick" /\ ev.after.job = 1
    /\ Outcome(ev.after) = "Failure" /\ ev.after.pc = "raised"
    /\ Len(jobs) = 1 /\ jobs[1].interval = 60

\* a step of a perform_check call after its chat send, scheduled or manual
ChattedStep(sent, smtp_ok) ==
    \/ \E t \in Running : tick_chatted(t, sent, smtp_ok)
    \/ check_now_chatted(sent, smtp_ok)

====
